---- MODULE Spec2Model ----
(***************************************************************************)
(* Truncated, censored and hurdle count models of                          *)
(* statsmodels/discrete/truncated_model.py.                                *)
(*                                                                         *)
(* Numbers.  Probabilities and scores are exact rationals <<num, den>>     *)
(* (den > 0, lowest terms).  A log-likelihood value is kept as the         *)
(* rational whose logarithm it is: [fin |-> TRUE, r |-> q] stands for      *)
(* log(q), and np.log of a non-positive number is the non-finite value.    *)
(* np.sum of log values is kept as the bag of its summands.                *)
(*                                                                         *)
(* The base count distributions (Poisson, NegativeBinomialP,               *)
(* GeneralizedPoisson) live in discrete_model.py, outside this file; they  *)
(* are modelled from their contract: loglikeobs and score_obs over a       *)
(* stored (endog, exog, offset, exposure) with a parameterization p.       *)
(***************************************************************************)
EXTENDS Integers, Sequences, FiniteSets, Bags, TLC

\* ------------------------------------------------------------------ bounds
\* rows of a truncated model's sample; rows of a censored model's sample
MaxObs == 3
MaxObsC == 4
\* rows of a hurdle model's sample; fit calls on one hurdle model
MaxObsH == 2
MaxFits == 2

\* -------------------------------------------------------------- rationals
Abs(x) == IF x < 0 THEN -x ELSE x

RECURSIVE Gcd(_, _)
Gcd(a, b) == IF b = 0 THEN a ELSE Gcd(b, a % b)

Rat(n, d) ==
    LET g == Gcd(Abs(n), Abs(d))
        s == IF d < 0 THEN -1 ELSE 1
    IN  <<(s * n) \div g, (s * d) \div g>>

RInt(n) == <<n, 1>>
RZero == RInt(0)
ROne == RInt(1)

RAdd(a, b) ==
    LET g == Gcd(a[2], b[2])
        l == (a[2] \div g) * b[2]
    IN  Rat(a[1] * (l \div a[2]) + b[1] * (l \div b[2]), l)

RNeg(a) == <<-a[1], a[2]>>
RSub(a, b) == RAdd(a, RNeg(b))
RMul(a, b) ==
    LET g1 == Gcd(Abs(a[1]), b[2])
        g2 == Gcd(Abs(b[1]), a[2])
    IN  Rat((a[1] \div g1) * (b[1] \div g2), (a[2] \div g2) * (b[2] \div g1))
RDiv(a, b) == RMul(a, Rat(b[2], b[1]))
RPos(a) == a[1] > 0

\* vectors of rationals (one score row)
VAdd(u, v) == [c \in 1..Len(u) |-> RAdd(u[c], v[c])]
VScale(u, q) == [c \in 1..Len(u) |-> RMul(u[c], q)]
VZero(k) == [c \in 1..k |-> RZero]

\* np.log / np.exp on the log representation
NonFinite == [fin |-> FALSE, r |-> RZero]
Log(q) == IF RPos(q) THEN [fin |-> TRUE, r |-> q] ELSE NonFinite
Exp(l) == l.r
LogSub(a, b) ==
    IF a.fin /\ b.fin THEN [fin |-> TRUE, r |-> RDiv(a.r, b.r)] ELSE NonFinite

\* np.sum over a vector of log values: the bag of the summands
SumLog(v) ==
    LET RECURSIVE acc(_)
        acc(j) == IF j = 0 THEN EmptyBag ELSE acc(j - 1) (+) SetToBag({v[j]})
    IN  acc(Len(v))

\* ndarray.sum(0) over a matrix of score rows: per column, the bag of summands
SumRows(m, k) ==
    [c \in 1..k |->
        LET RECURSIVE acc(_)
            acc(j) == IF j = 0 THEN EmptyBag
                      ELSE acc(j - 1) (+) SetToBag({m[j][c]})
        IN  acc(Len(m))]

\* optional arguments: None is <<>>, a given value v is <<v>>
None == <<>>
Some(v) == <<v>>
IsNone(o) == o = <<>>

\* numpy indexing helpers
RECURSIVE BoolIndex(_, _)
BoolIndex(a, mask) ==
    IF Len(a) = 0 THEN <<>>
    ELSE IF Head(mask) THEN <<Head(a)>> \o BoolIndex(Tail(a), Tail(mask))
         ELSE BoolIndex(Tail(a), Tail(mask))

\* a[idx] for an array of 0-based row indices
TakeIdx(a, idx) == [j \in 1..Len(idx) |-> a[idx[j] + 1]]

\* np.nonzero(flags)[0]: the ascending 0-based positions where flags hold
RECURSIVE NonzeroFrom(_, _)
NonzeroFrom(flags, j) ==
    IF j > Len(flags) THEN <<>>
    ELSE IF flags[j] THEN <<j - 1>> \o NonzeroFrom(flags, j + 1)
         ELSE NonzeroFrom(flags, j + 1)
Nonzero(flags) == NonzeroFrom(flags, 1)

\* ------------------------------------------- base count distributions
KExtraOf(cls) == IF cls = "Poisson" THEN 0 ELSE 1

\* the parameterization a base class takes when none is passed
DefaultP(cls) ==
    CASE cls = "Poisson" -> 0
      [] cls = "NegativeBinomialP" -> 2
      [] cls = "GeneralizedPoisson" -> 1

\* log of an exposure value (exposures are powers of two; base-2 logarithm)
LogExposure(e) == CASE e = 1 -> 0 [] e = 2 -> 1 [] e = 4 -> 2

ValueError == [ok |-> FALSE, err |-> "ValueError"]

\* a TypeError with its message, the message kept as the pieces the format
\* string puts together
TypeError(msg) == [ok |-> FALSE, err |-> "TypeError", msg |-> msg]

\* CountModel.__init__ of a base class: stores the data, logs the exposure,
\* rejects an offset or exposure whose length is not that of endog
BaseInit(cls, endog, exog, offset, exposure, p) ==
    IF \/ (~IsNone(offset) /\ Len(offset[1]) # Len(endog))
       \/ (~IsNone(exposure) /\ Len(exposure[1]) # Len(endog))
    THEN ValueError
    ELSE [ok |-> TRUE, cls |-> cls, endog |-> endog, exog |-> exog,
          offset |-> offset,
          exposure |-> IF IsNone(exposure) THEN None
                       ELSE Some([j \in 1..Len(endog) |->
                                   LogExposure(exposure[1][j])]),
          p |-> p]

Dot(x, b) ==
    LET RECURSIVE acc(_)
        acc(c) == IF c = 0 THEN 0 ELSE acc(c - 1) + x[c] * b[c]
    IN  acc(Len(x))

OptAt(o, j) == IF IsNone(o) THEN 0 ELSE o[1][j]

\* linear predictor of row j: x.beta + offset + log(exposure)
BaseLinPred(m, params, j) ==
    Dot(m.exog[j], params) + OptAt(m.offset, j) + OptAt(m.exposure, j)

BaseAlpha(m, params) ==
    IF KExtraOf(m.cls) = 0 THEN 0 ELSE params[Len(params)]

PShift(p) == IF p <= 1 THEN 0 ELSE 3 * (p - 1)

RECURSIVE Binom(_, _)
Binom(n, k) == IF k = 0 THEN 1 ELSE (Binom(n - 1, k - 1) * n) \div k

RECURSIVE Pow2(_)
Pow2(n) == IF n = 0 THEN 1 ELSE 2 * Pow2(n - 1)

\* np.exp of a linear predictor (base-2 exponent, to stay rational)
ExpLin(eta) == Pow2(eta)

\* mean of row j: exp(linear predictor)
BaseMu(m, params, j) == ExpLin(BaseLinPred(m, params, j))

\* the distribution's size parameter: set by the mean, the dispersion
\* parameter and the parameterization
SizeOf(mu, alpha, p) == mu + alpha + PShift(p)

BaseSize(m, params, j) ==
    SizeOf(BaseMu(m, params, j), BaseAlpha(m, params), m.p)

\* P(Y = y) of the count distribution with size s
BasePmf(s, y) == Rat(Binom(y + s - 1, y), Pow2(s + y))

BaseLoglikeobs(m, params) ==
    [j \in 1..Len(m.endog) |-> Log(BasePmf(BaseSize(m, params, j), m.endog[j]))]

BaseScoreRow(m, params, j) ==
    LET s == BaseSize(m, params, j)
        y == m.endog[j]
        k == Len(m.exog[j])
    IN  [c \in 1..(k + KExtraOf(m.cls)) |->
            IF c <= k THEN RInt((y - s) * m.exog[j][c]) ELSE RInt(y - 2 * s)]

BaseScoreObs(m, params) ==
    [j \in 1..Len(m.endog) |-> BaseScoreRow(m, params, j)]

\* ------------------------------------------------------ GenericTruncated
\* rank of a design whose rows are <<1, a>> or <<1, a, b>> with a, b in {0, 1}
ExogRank(exog) ==
    LET rows == {exog[j] : j \in 1..Len(exog)}
    IN  IF Len(exog) = 0 THEN 0
        ELSE IF Cardinality(rows) < Len(exog[1]) THEN Cardinality(rows)
             ELSE Len(exog[1])

\* df_model as DiscreteModel's constructor sets it: rank of the exog it is
\* given, minus one
InitDfModel(exog) == ExogRank(exog) - 1

MainClsOf(tcls) ==
    CASE tcls = "TruncatedPoisson" -> "Poisson"
      [] tcls = "TruncatedNegativeBinomialP" -> "NegativeBinomialP"
      [] tcls = "TruncatedGeneralizedPoisson" -> "GeneralizedPoisson"

KeepMask_OffByOne(endog, truncation) ==
    [j \in 1..Len(endog) |-> endog[j] >= truncation]

\* the rows kept by lines 64-65: exog first (by the unfiltered endog), then endog
KeepMask(endog, truncation) ==
    [j \in 1..Len(endog) |-> endog[j] >= truncation + 1]

GenericTruncatedInit(endog, exog, truncation, offset, exposure) ==
    LET exog1 == BoolIndex(exog, KeepMask(endog, truncation))
        endog1 == BoolIndex(endog, KeepMask(endog, truncation))
    IN  [endog |-> endog1, exog |-> exog1,
         trunc |-> truncation, truncation |-> truncation,
         df_model |-> InitDfModel(exog),
         offset |-> offset,
         exposure |-> IF IsNone(exposure) THEN None
                      ELSE Some([j \in 1..Len(endog) |->
                                  LogExposure(exposure[1][j])])]

\* TruncatedPoisson / TruncatedNegativeBinomialP / TruncatedGeneralizedPoisson
TruncatedInit(tcls, endog, exog, offset, exposure, truncation, p) ==
    LET g == GenericTruncatedInit(endog, exog, truncation, offset, exposure)
        pm == IF tcls = "TruncatedPoisson" THEN DefaultP("Poisson") ELSE p
        mm == BaseInit(MainClsOf(tcls), g.endog, g.exog, offset, exposure, pm)
    IN  IF ~mm.ok THEN ValueError
        ELSE [ok |-> TRUE, cls |-> tcls, endog |-> g.endog, exog |-> g.exog,
              trunc |-> g.trunc, truncation |-> g.truncation,
              offset |-> g.offset, exposure |-> g.exposure,
              k_exog |-> Len(exog[1]), df_model |-> g.df_model,
              model_main |-> mm, k_extra |-> KExtraOf(mm.cls)]

\* number of parameters the wrapped base model takes beyond the coefficients
MainKExtra(m) == KExtraOf(m.model_main.cls)

\* the transient model of lines 115-116 / 143-144: same class, response i on
\* every row, self.exog, and nothing else passed
CounterfactualModel(m, i) ==
    BaseInit(m.model_main.cls, [j \in 1..Len(m.endog) |-> i], m.exog,
             None, None, DefaultP(m.model_main.cls))

\* range(self.trunc + 1): how many responses 0, 1, ... the loops visit
TruncRange_Extra(m) == m.trunc + 2
TruncRange(m) == m.trunc + 1

\* the loop of lines 113-117: pmf accumulated over i in range(trunc + 1)
TruncRegionPmf(m, params) ==
    LET RECURSIVE acc(_)
        acc(n) ==
            IF n <= 0 THEN [j \in 1..Len(m.endog) |-> RZero]
            ELSE LET model == CounterfactualModel(m, n - 1)
                     ll == BaseLoglikeobs(model, params)
                     prev == acc(n - 1)
                 IN  [j \in 1..Len(m.endog) |-> RAdd(prev[j], Exp(ll[j]))]
    IN  acc(TruncRange(m))

\* the responses at which the loop builds a transient model
CounterfactualResponses(m) == [n \in 1..TruncRange(m) |-> n - 1]

GenericTruncated_loglikeobs(m, params) ==
    LET llf_main == BaseLoglikeobs(m.model_main, params)
        pmf == TruncRegionPmf(m, params)
    IN  [j \in 1..Len(m.endog) |->
            LogSub(llf_main[j], Log(RSub(ROne, pmf[j])))]

GenericTruncated_loglike(m, params) ==
    SumLog(GenericTruncated_loglikeobs(m, params))

TruncRegionScore_Unweighted(m, params) ==
    LET k == Len(params)
        RECURSIVE acc(_)
        acc(n) ==
            IF n <= 0 THEN [j \in 1..Len(m.endog) |-> VZero(k)]
            ELSE LET model == CounterfactualModel(m, n - 1)
                     sc == BaseScoreObs(model, params)
                     prev == acc(n - 1)
                 IN  [j \in 1..Len(m.endog) |-> VAdd(prev[j], sc[j])]
    IN  acc(TruncRange(m))

\* the loop of lines 140-147: score_trunc accumulated over i in range(trunc + 1)
TruncRegionScore(m, params) ==
    LET k == Len(params)
        RECURSIVE acc(_)
        acc(n) ==
            IF n <= 0 THEN [j \in 1..Len(m.endog) |-> VZero(k)]
            ELSE LET model == CounterfactualModel(m, n - 1)
                     ll == BaseLoglikeobs(model, params)
                     sc == BaseScoreObs(model, params)
                     prev == acc(n - 1)
                 IN  [j \in 1..Len(m.endog) |->
                        VAdd(prev[j], VScale(sc[j], Exp(ll[j])))]
    IN  acc(TruncRange(m))

GenericTruncated_score_obs_Minus(m, params) ==
    LET score_main == BaseScoreObs(m.model_main, params)
        pmf == TruncRegionPmf(m, params)
        score_trunc == TruncRegionScore(m, params)
    IN  [j \in 1..Len(m.endog) |->
            VAdd(score_main[j],
                 VScale(score_trunc[j],
                        RNeg(RDiv(ROne, RSub(ROne, pmf[j])))))]

GenericTruncated_score_obs(m, params) ==
    LET score_main == BaseScoreObs(m.model_main, params)
        pmf == TruncRegionPmf(m, params)
        score_trunc == TruncRegionScore(m, params)
    IN  [j \in 1..Len(m.endog) |->
            VAdd(score_main[j],
                 VScale(score_trunc[j], RDiv(ROne, RSub(ROne, pmf[j]))))]

GenericTruncated_score(m, params) ==
    SumRows(GenericTruncated_score_obs(m, params), Len(params))

\* ------------------------------------------------------- GenericCensored
\* lines 658-659: the split is taken from the endog argument, before the
\* base constructor runs
NonzeroIdxOf_AllRows(endog) == Nonzero([j \in 1..Len(endog) |-> endog[j] >= 0])
ZeroIdxOf_LowCounts(endog) == Nonzero([j \in 1..Len(endog) |-> endog[j] <= 1])
ZeroIdxOf(endog) == Nonzero([j \in 1..Len(endog) |-> endog[j] = 0])
NonzeroIdxOf(endog) == Nonzero([j \in 1..Len(endog) |-> endog[j] # 0])

GenericCensoredInit(endog, exog, offset, exposure) ==
    [zero_idx |-> ZeroIdxOf(endog),
     nonzero_idx |-> NonzeroIdxOf(endog),
     endog |-> endog, exog |-> exog, offset |-> offset,
     df_model |-> InitDfModel(exog),
     exposure |-> IF IsNone(exposure) THEN None
                  ELSE Some([j \in 1..Len(endog) |->
                              LogExposure(exposure[1][j])])]

\* the parameterization the censored class hands to its base model:
\* CensoredNegativeBinomialP passes p (line 962); CensoredPoisson,
\* CensoredGeneralizedPoisson (line 918) and Censored (line 1005) pass none
CensoredMainP(ccls, main, p) ==
    IF ccls = "CensoredNegativeBinomialP" THEN p ELSE DefaultP(main)

\* CensoredPoisson / CensoredGeneralizedPoisson / CensoredNegativeBinomialP /
\* Censored: the base model is built on an all-zero response and self.exog
CensoredInit(ccls, main, endog, exog, offset, exposure, p) ==
    LET g == GenericCensoredInit(endog, exog, offset, exposure)
        mm == BaseInit(main, [j \in 1..Len(g.endog) |-> 0], g.exog,
                       None, None, CensoredMainP(ccls, main, p))
    IN  [ok |-> TRUE, cls |-> ccls, endog |-> g.endog, exog |-> g.exog,
         offset |-> g.offset, exposure |-> g.exposure,
         zero_idx |-> g.zero_idx, nonzero_idx |-> g.nonzero_idx,
         k_exog |-> Len(exog[1]), df_model |-> g.df_model, model_main |-> mm]

\* np.log(1 - np.exp(l))
Log1mExp(l) == IF l.fin THEN Log(RSub(ROne, Exp(l))) ELSE NonFinite

GenericCensored_loglikeobs_NonzeroFirst(m, params) ==
    LET llf_main == BaseLoglikeobs(m.model_main, params)
        nz == TakeIdx(llf_main, m.nonzero_idx)
    IN  [j \in 1..Len(nz) |-> Log1mExp(nz[j])]
        \o TakeIdx(llf_main, m.zero_idx)

\* lines 709-716
GenericCensored_loglikeobs(m, params) ==
    LET llf_main == BaseLoglikeobs(m.model_main, params)
        nz == TakeIdx(llf_main, m.nonzero_idx)
    IN  TakeIdx(llf_main, m.zero_idx)
        \o [j \in 1..Len(nz) |-> Log1mExp(nz[j])]

GenericCensored_loglike(m, params) ==
    SumLog(GenericCensored_loglikeobs(m, params))

GenericCensored_score_obs_NoWeight(m, params) ==
    LET score_main == BaseScoreObs(m.model_main, params)
        snz == TakeIdx(score_main, m.nonzero_idx)
    IN  TakeIdx(score_main, m.zero_idx)
        \o [j \in 1..Len(snz) |-> VScale(snz[j], RInt(-1))]

\* lines 733-743
GenericCensored_score_obs(m, params) ==
    LET score_main == BaseScoreObs(m.model_main, params)
        llf_main == BaseLoglikeobs(m.model_main, params)
        snz == TakeIdx(score_main, m.nonzero_idx)
        lnz == TakeIdx(llf_main, m.nonzero_idx)
    IN  TakeIdx(score_main, m.zero_idx)
        \o [j \in 1..Len(snz) |->
               VScale(snz[j],
                      RDiv(RNeg(Exp(lnz[j])), RSub(ROne, Exp(lnz[j]))))]

GenericCensored_score(m, params) ==
    SumRows(GenericCensored_score_obs(m, params), Len(params))

\* ------------------------------------------------------------------ fit
\* df_model handed to a results object: the model's own, set when it was
\* constructed
DfModelOf(m) == m.df_model

\* the method DiscreteModel.fit uses when the caller passes none
BaseFitMethod == "newton"

\* start values when the caller gives none: params of the base class fitted
\* to (self.endog, self.exog)
BaseFitParams(m) == [c \in 1..(m.k_exog + MainKExtra(m)) |-> 0]

\* covariance of a fit (attribute of the optimizer's answer)
CovParams(ans) == ans.cov

\* the results object a stage fit returns; carry says whether the results
\* class has a k_extra attribute
FitResults(m, call, ans, carry) ==
    [model |-> m.cls, optimizer |-> call,
     params |-> ans.params, converged |-> ans.converged,
     df_model |-> DfModelOf(m), cov |-> ans.cov,
     k_extra |-> IF carry THEN Some(MainKExtra(m)) ELSE None]

\* GenericTruncated.fit, lines 170-198
GenericTruncated_fit(m, start_params, method, maxiter, ans, carry) ==
    LET start == IF IsNone(start_params) THEN Some(BaseFitParams(m))
                 ELSE start_params
        call == [start_params |-> start, method |-> method,
                 maxiter |-> maxiter]
    IN  FitResults(m, call, ans, carry)

\* GenericCensored.fit, lines 762-789: method is not handed on
GenericCensored_fit(m, start_params, method, maxiter, ans, carry) ==
    LET start == IF IsNone(start_params) THEN Some(BaseFitParams(m))
                 ELSE start_params
        call == [start_params |-> start, method |-> BaseFitMethod,
                 maxiter |-> maxiter]
    IN  FitResults(m, call, ans, carry)

\* the regularized optimizer called at lines 218-229 takes the l1 methods
\* and rejects any other method with ValueError
L1MethodAccepted(method) == method \in {"l1", "l1_cvxopt_cp"}

\* fit_regularized, lines 202-237 and 793-828 (the same text in both
\* classes): the optimizer is called before the method test of line 231
Generic_fit_regularized(m, start_params, method, alpha, ans) ==
    LET alpha1 == IF alpha # 0 THEN [c \in 1..m.k_exog |-> alpha] ELSE <<>>
        start == IF IsNone(start_params) THEN Some(BaseFitParams(m))
                 ELSE start_params
        call == [start_params |-> start, method |-> method,
                 alpha |-> alpha1]
    IN  IF ~L1MethodAccepted(method) THEN ValueError
        ELSE IF method \in {"l1", "l1_cvxopt_cp"}
        THEN [ok |-> TRUE, model |-> m.cls, optimizer |-> call,
              params |-> ans.params, converged |-> ans.converged]
        ELSE TypeError(<<"argument method == ", method,
                         ", which is not handled">>)

\* approx_hess(params, self.loglike): the points of a forward stencil around
\* params at which the log-likelihood is evaluated
UnitStep(params, c) == [params EXCEPT ![c] = @ + 1]
ApproxHessPoints(params) ==
    [c \in 1..Len(params) |-> <<params, UnitStep(params, c)>>]

\* GenericTruncated.hessian, line 260
GenericTruncated_hessian(m, params) ==
    LET pts == ApproxHessPoints(params)
    IN  [c \in 1..Len(pts) |->
            <<GenericTruncated_loglike(m, pts[c][1]),
              GenericTruncated_loglike(m, pts[c][2])>>]

\* GenericCensored.hessian, line 850
GenericCensored_hessian(m, params) ==
    LET pts == ApproxHessPoints(params)
    IN  [c \in 1..Len(pts) |->
            <<GenericCensored_loglike(m, pts[c][1]),
              GenericCensored_loglike(m, pts[c][2])>>]

\* ---------------------------------------------------------------- Hurdle
NotImplementedError ==
    [ok |-> FALSE, err |-> "NotImplementedError",
     msg |-> <<"dist and zerodist must be ", "poisson", ",", "negbin">>]

DistCls(tag) == IF tag = "poisson" THEN "Poisson" ELSE "NegativeBinomialP"

\* Hurdle.__init__ and _initialize, lines 1054-1094.  model1 is a Censored
\* model of the zero-stage class built from (self.endog, self.exog) alone;
\* model2 is a truncated model with the default truncation 0, and gets p
\* when dist is "negbin"
HurdleInit(endog, exog, offset, exposure, dist, zerodist, p, pzero) ==
    IF dist \notin {"poisson", "negbin"} \/ zerodist \notin {"poisson", "negbin"}
    THEN NotImplementedError
    ELSE [ok |-> TRUE, cls |-> "Hurdle", endog |-> endog, exog |-> exog,
          offset |-> offset,
          exposure |-> IF IsNone(exposure) THEN None
                       ELSE Some([j \in 1..Len(endog) |->
                                   LogExposure(exposure[1][j])]),
          k_exog |-> Len(exog[1]),
          df_model |-> InitDfModel(exog),
          k_extra1 |-> 0, k_extra2 |-> 0, k_extra |-> Some(0),
          model1 |-> CensoredInit("Censored", DistCls(zerodist), endog, exog,
                                  None, None, pzero),
          model2 |-> IF dist = "poisson"
                     THEN TruncatedInit("TruncatedPoisson", endog, exog,
                                        None, None, 0, p)
                     ELSE TruncatedInit("TruncatedNegativeBinomialP", endog,
                                        exog, None, None, 0, p)]

\* int(x / 2) for an integer x: Python's int() cuts towards zero
IntHalf(x) == IF x >= 0 THEN x \div 2 ELSE -((-x) \div 2)

\* lines 1115-1116 and 1231-1232: where the composite vector is split
Hurdle_split_NoExtra1(n, k_extra1, k_extra2) ==
    IntHalf(n - k_extra1 - k_extra2)
Hurdle_split(n, k_extra1, k_extra2) ==
    IntHalf(n - k_extra1 - k_extra2) + k_extra1

\* Python slices a[:k] and a[k:]
SliceIndex(a, k) ==
    IF k < 0 THEN (IF Len(a) + k < 0 THEN 0 ELSE Len(a) + k)
    ELSE (IF k > Len(a) THEN Len(a) ELSE k)
SliceTo(a, k) == SubSeq(a, 1, SliceIndex(a, k))
SliceFrom(a, k) == SubSeq(a, SliceIndex(a, k) + 1, Len(a))

\* a base model takes exactly its coefficients and its extra parameters
StageParamsOk(m, q) == Len(q) = m.k_exog + MainKExtra(m)

\* Hurdle.loglike, lines 1115-1118
Hurdle_loglike(h, params) ==
    LET k == Hurdle_split(Len(params), h.k_extra1, h.k_extra2)
        params_zero == SliceTo(params, k)
        params_main == SliceFrom(params, k)
    IN  IF StageParamsOk(h.model1, params_zero)
           /\ StageParamsOk(h.model2, params_main)
        THEN [ok |-> TRUE, k |-> k,
              params_zero |-> params_zero, params_main |-> params_main,
              value |-> GenericCensored_loglike(h.model1, params_zero)
                        (+) GenericTruncated_loglike(h.model2, params_main)]
        ELSE [ok |-> FALSE, err |-> "ValueError", k |-> k,
              params_zero |-> params_zero, params_main |-> params_main]

\* --------------------------------------------------------------- predict
\* line 614
ConditionalMeanNotImplemented ==
    [ok |-> FALSE, err |-> "NotImplementedError",
     msg |-> <<"conditional mean not implemented">>]
AttributeError == [ok |-> FALSE, err |-> "AttributeError"]
IndexError == [ok |-> FALSE, err |-> "IndexError"]

Zeros(n) == [j \in 1..n |-> 0]

\* CountModel._get_predict_arrays: a given exposure is logged; with no exog
\* the model's own exog, offset and exposure stand in; a missing offset or
\* exposure is 0 on every row
GetPredictArrays(m, exog, offset, exposure) ==
    LET x == IF IsNone(exog) THEN m.exog ELSE exog[1]
        own(o) == IF IsNone(exog) /\ ~IsNone(o) THEN o[1] ELSE Zeros(Len(x))
    IN  [exog |-> x,
         offset |-> IF IsNone(offset) THEN own(m.offset) ELSE offset[1],
         exposure |-> IF IsNone(exposure) THEN own(m.exposure)
                      ELSE [j \in 1..Len(exposure[1]) |->
                              LogExposure(exposure[1][j])]]

\* lines 594-603, TruncatedGeneralizedPoisson: the model's own offset and
\* exposure stand in whether or not exog is given
GenPoisPredictArrays(m, exog, offset, exposure) ==
    LET x == IF IsNone(exog) THEN m.exog ELSE exog[1]
        own(o) == IF ~IsNone(o) THEN o[1] ELSE Zeros(Len(x))
    IN  [exog |-> x,
         offset |-> IF IsNone(offset) THEN own(m.offset) ELSE offset[1],
         exposure |-> IF IsNone(exposure) THEN own(m.exposure)
                      ELSE [j \in 1..Len(exposure[1]) |->
                              IF exposure[1][j] # 0
                              THEN LogExposure(exposure[1][j]) ELSE 0]]

\* "exposure != 0" (line 599) has no truth value on an array of several rows
ExposureTestFails(exposure) ==
    ~IsNone(exposure) /\ Len(exposure[1]) > 1

\* np.exp of an exposure array, as handed on to a nested predict
ExpArray(v) == [j \in 1..Len(v) |-> ExpLin(v[j])]

\* np.dot(exog, params[:exog.shape[1]]) + exposure + offset
LinPred(arr, params, k) ==
    [j \in 1..Len(arr.exog) |->
        Dot(arr.exog[j], SliceTo(params, k)) + arr.exposure[j] + arr.offset[j]]

\* the arrays line up: enough coefficients, one offset and exposure per row
LinPredOk(arr, params, k) ==
    /\ Len(SliceTo(params, k)) = k
    /\ Len(arr.offset) = Len(arr.exog)
    /\ Len(arr.exposure) = Len(arr.exog)

\* np.arange(0, n)
Arange(n) == [c \in 1..(IF n < 0 THEN 0 ELSE n) |-> c - 1]

SeqMax(v) ==
    LET RECURSIVE acc(_)
        acc(j) == IF j = 1 THEN v[1]
                  ELSE IF v[j] > acc(j - 1) THEN v[j] ELSE acc(j - 1)
    IN  acc(Len(v))

RSum(v) ==
    LET RECURSIVE acc(_)
        acc(j) == IF j = 0 THEN RZero ELSE RAdd(acc(j - 1), v[j])
    IN  acc(Len(v))

\* predict(which="prob") of a base model: P(Y = c) for each row and count
BasePredictProb(cls, p, params, arr, k, counts) ==
    LET alpha == IF KExtraOf(cls) = 0 THEN 0 ELSE params[Len(params)]
        lin == LinPred(arr, params, k)
    IN  [j \in 1..Len(arr.exog) |->
            [c \in 1..Len(counts) |->
                BasePmf(SizeOf(ExpLin(lin[j]), alpha, p), counts[c])]]

\* _prob_nonzero of a base model: P(Y > 0) at mean mu
ProbNonzero(cls, p, mu, params) ==
    LET alpha == IF KExtraOf(cls) = 0 THEN 0 ELSE params[Len(params)]
    IN  [j \in 1..Len(mu) |-> RSub(ROne, BasePmf(SizeOf(mu[j], alpha, p), 0))]

\* pmf of the truncated distributions (truncatedpoisson, truncatednegbin):
\* zero up to trunc, the base pmf over the mass above trunc beyond it
BaseCdf(s, t) == RSum([c \in 1..(t + 1) |-> BasePmf(s, c - 1)])
TruncatedDistPmf(s, y, trunc) ==
    IF y <= trunc THEN RZero
    ELSE RDiv(BasePmf(s, y), RSub(ROne, BaseCdf(s, trunc)))

\* np.exp(-np.exp(linpred)), line 337 and line 610
ExpNegExp(mu) == Rat(1, Pow2(mu))

RECURSIVE IntPow(_, _)
IntPow(b, e) == IF e <= 0 THEN 1 ELSE b * IntPow(b, e - 1)

\* (1 + alpha * mu**(p-1))**(-1/alpha), line 469; alpha is 1 on every
\* parameter vector in use, where the power is a reciprocal
NegBinZeroFormula(mu, alpha, p) == Rat(1, 1 + alpha * IntPow(mu, p - 1))

\* the counts of the "prob" branches, lines 355-358
ProbCounts(m, count_prob) ==
    IF ~IsNone(count_prob) THEN count_prob[1] ELSE Arange(SeqMax(m.endog) + 1)

TruncatedUnhandled_NoValue(which) == TypeError(<<"argument not handled">>)

\* lines 386-388, 523-525, 628-630: the kind is none of the branches
TruncatedUnhandled(which) ==
    TypeError(<<"argument wich == ", which, " not handled">>)

\* lines 1272-1273: the (lower-cased) kind is none of the branches
HurdleUnhandled(w) ==
    [ok |-> FALSE, err |-> "ValueError",
     msg |-> <<"which = ", w, " is not available">>, split |-> None]

\* moments over the truncation region, lines 341-348 and 373-383
TruncRegionMoments(m, params, arr, k) ==
    LET counts == Arange(m.truncation + 1)
        nested == [exog |-> arr.exog, offset |-> arr.offset,
                   exposure |-> [j \in 1..Len(arr.exposure) |->
                                  LogExposure(ExpArray(arr.exposure)[j])]]
        probs == BasePredictProb(m.model_main.cls, m.model_main.p, params,
                                 nested, k, counts)
    IN  [j \in 1..Len(arr.exog) |->
            [prob_tregion |-> RSum(probs[j]),
             mean_tregion |-> RSum([c \in 1..Len(counts) |->
                                 RMul(RInt(counts[c]), probs[j][c])]),
             mnc2_tregion |-> RSum([c \in 1..Len(counts) |->
                                 RMul(RInt(counts[c] * counts[c]),
                                      probs[j][c])])]]

\* predict of TruncatedPoisson (lines 308-388), TruncatedNegativeBinomialP
\* (lines 439-525) and TruncatedGeneralizedPoisson (lines 578-630)
Truncated_predict(m, params, exog, exposure, offset, which, count_prob) ==
    LET genpois == m.cls = "TruncatedGeneralizedPoisson"
        arr == IF genpois THEN GenPoisPredictArrays(m, exog, offset, exposure)
               ELSE GetPredictArrays(m, exog, offset, exposure)
        k == m.k_exog
        pois == m.cls = "TruncatedPoisson"
        negbin == m.cls = "TruncatedNegativeBinomialP"
        linpred == LinPred(arr, params, k)
        n == Len(arr.exog)
        mu == [j \in 1..n |-> ExpLin(linpred[j])]
        alpha == params[Len(params)]
        pm == m.model_main.p
        mom == TruncRegionMoments(m, params, arr, k)
        nested == [exog |-> arr.exog, offset |-> arr.offset,
                   exposure |-> [j \in 1..n |->
                                  LogExposure(ExpArray(arr.exposure)[j])]]
        cmean(j) == RDiv(RSub(RInt(mu[j]), mom[j].mean_tregion),
                         RSub(ROne, mom[j].prob_tregion))
        vm(j) == IF pois THEN mu[j]
                 ELSE mu[j] * (1 + alpha * IntPow(mu[j], pm - 1))
        mnc2(j) == RDiv(RSub(RInt(mu[j] * mu[j] + vm(j)), mom[j].mnc2_tregion),
                        RSub(ROne, mom[j].prob_tregion))
        good(v) == [ok |-> TRUE, which |-> which, value |-> v]
    IN  IF genpois /\ ExposureTestFails(exposure) THEN ValueError
        ELSE IF ~LinPredOk(arr, params, k) THEN ValueError
        ELSE CASE which = "mean" ->
                    IF m.truncation = 0
                    THEN good([j \in 1..n |->
                            RDiv(RInt(mu[j]),
                                 RSub(ROne,
                                      IF negbin
                                      THEN NegBinZeroFormula(mu[j], alpha, pm)
                                      ELSE ExpNegExp(mu[j])))])
                    ELSE IF m.truncation = -1
                    THEN good([j \in 1..n |-> RInt(mu[j])])
                    ELSE IF m.truncation > 0
                    THEN (IF genpois
                          THEN ConditionalMeanNotImplemented
                          ELSE good([j \in 1..n |-> cmean(j)]))
                    ELSE good(None)
               [] which = "linear" -> good([j \in 1..n |-> RInt(linpred[j])])
               [] which = "mean-main" -> good([j \in 1..n |-> RInt(mu[j])])
               [] which = "prob" ->
                    IF IsNone(count_prob) /\ Len(m.endog) = 0 THEN ValueError
                    ELSE IF genpois
                    THEN (IF ExposureTestFails(
                                IF IsNone(exposure) THEN m.exposure
                                ELSE exposure)
                          THEN ValueError ELSE AttributeError)
                    ELSE LET counts == ProbCounts(m, count_prob)
                             a == IF pois THEN 0 ELSE alpha
                         IN  good([j \in 1..n |-> [c \in 1..Len(counts) |->
                                TruncatedDistPmf(SizeOf(mu[j], a, pm),
                                                 counts[c], m.trunc)]])
               [] which = "prob-main" /\ ~genpois ->
                    IF Len(m.endog) = 0 /\ (IsNone(count_prob) \/ pois)
                    THEN ValueError
                    ELSE LET counts == IF pois
                                       THEN Arange(SeqMax(m.model_main.endog) + 1)
                                       ELSE ProbCounts(m, count_prob)
                             probs == BasePredictProb(m.model_main.cls, pm,
                                                      params, nested, k, counts)
                         IN  good([j \in 1..n |-> <<probs[j]>>])
               [] which = "var" /\ ~genpois ->
                    good([j \in 1..n |->
                            RSub(mnc2(j), RMul(cmean(j), cmean(j)))])
               [] OTHER -> TruncatedUnhandled(which)

\* CountModel.predict(params, exog=exog) of the zero stage: the mean
\* exp(x.beta) with offset and exposure left at zero
CountModel_predict_mean(m, params, exog) ==
    LET arr == GetPredictArrays(m, Some(exog), None, None)
    IN  [j \in 1..Len(exog) |-> ExpLin(LinPred(arr, params, m.k_exog)[j])]

\* str.lower() on the kinds a caller writes with capitals
Lower(w) ==
    CASE w = "MEAN" -> "mean"
      [] w = "Var" -> "var"
      [] OTHER -> w

\* Hurdle.predict, lines 1217-1273
Hurdle_predict(h, params, exog, exposure, offset, which, y_values) ==
    LET w == Lower(which)
        arr == GetPredictArrays(h, exog, offset, exposure)
        n == Len(arr.exog)
        k_zeros == Hurdle_split(Len(params), h.k_extra1, h.k_extra2)
        params_zero == SliceTo(params, k_zeros)
        params_main == SliceFrom(params, k_zeros)
        main1 == h.model1.model_main
        lin_pred == LinPred(arr, params_main, h.k_exog)
        mu1 == CountModel_predict_mean(h.model1, params_zero, arr.exog)
        prob_main == ProbNonzero(main1.cls, main1.p, mu1, params_zero)
        prob_zero == [j \in 1..n |-> RSub(ROne, prob_main[j])]
        mu2 == [j \in 1..n |-> ExpLin(lin_pred[j])]
        prob_ntrunc == ProbNonzero(main1.cls, main1.p, mu2, params_main)
        probs_main == Truncated_predict(h.model2, params_main, Some(arr.exog),
                                        Some(ExpArray(arr.exposure)),
                                        Some(arr.offset), "prob", y_values)
        split == [k_zeros |-> k_zeros, params_zero |-> params_zero,
                  params_main |-> params_main]
        good(v) == [ok |-> TRUE, which |-> which, split |-> split, value |-> v]
        bad(e) == [ok |-> FALSE, err |-> e, split |-> split]
    IN  IF \/ ~LinPredOk(arr, params_main, h.k_exog)
           \/ ~LinPredOk(arr, params_zero, h.k_exog)
        THEN bad("ValueError")
        ELSE IF KExtraOf(main1.cls) = 1 /\ Len(params_main) = 0
        THEN bad("IndexError")
        ELSE CASE w = "mean" ->
                    good([j \in 1..n |->
                        RDiv(RMul(prob_main[j], RInt(mu2[j])), prob_ntrunc[j])])
               [] w = "mean-main" -> good([j \in 1..n |-> RInt(mu2[j])])
               [] w = "linear" -> good([j \in 1..n |-> RInt(lin_pred[j])])
               [] w = "mean-nonzero" ->
                    good([j \in 1..n |-> RDiv(RInt(mu2[j]), prob_ntrunc[j])])
               [] w = "prob-zero" -> good(prob_zero)
               [] w = "prob-main" -> good(prob_main)
               [] w = "prob-trunc" ->
                    good([j \in 1..n |-> RSub(ROne, prob_ntrunc[j])])
               [] w = "prob" ->
                    IF ~probs_main.ok THEN bad(probs_main.err)
                    ELSE IF Len(probs_main.value[1]) = 0 THEN bad("IndexError")
                    ELSE good([j \in 1..n |->
                            [c \in 1..Len(probs_main.value[j]) |->
                                IF c = 1 THEN prob_zero[j]
                                ELSE RMul(probs_main.value[j][c],
                                          prob_main[j])]])
               [] OTHER -> [HurdleUnhandled(w) EXCEPT !.split = split]

\* getattr(results, "k_extra", 0)
ResultKExtra(res) == IF IsNone(res.k_extra) THEN 0 ELSE res.k_extra[1]

\* scipy.linalg.block_diag of two square matrices
BlockDiag(a, b) ==
    [r \in 1..(Len(a) + Len(b)) |->
        [c \in 1..(Len(a) + Len(b)) |->
            IF r <= Len(a) /\ c <= Len(a) THEN a[r][c]
            ELSE IF r > Len(a) /\ c > Len(a) THEN b[r - Len(a)][c - Len(a)]
                 ELSE 0]]

\* line 1138: result is a deep copy of results1, so the assignments to
\* result leave results1 alone
ResultIsCopy == TRUE

\* line 1142: np.append(results1 params, results2 params)
AppendParams_Swapped(p1, p2) == p2 \o p1
AppendParams(p1, p2) == p1 \o p2

ConvergedPair_Merged(c1, c2) == <<c1 /\ c2, c1 /\ c2>>

\* lines 1140-1141: the two stages' converged flags, stage 1 first
ConvergedPair(c1, c2) == <<c1, c2>>

\* lines 1152-1154: normalized_cov_params of the composite result
HurdleCov(cov1, cov2) == BlockDiag(cov1, cov2)

\* lines 1138-1164: the composite result from the two stage results, and the
\* model with its k_extra counters raised
Hurdle_assemble(h, results1, results2) ==
    LET k_extra1 == h.k_extra1 + ResultKExtra(results1)
        k_extra2 == h.k_extra2 + ResultKExtra(results2)
        result == [results1 EXCEPT
                     !.model = "Hurdle",
                     !.converged = ConvergedPair(results1.converged,
                                                 results2.converged),
                     !.params = AppendParams(results1.params, results2.params),
                     !.df_model = results1.df_model + results2.df_model,
                     !.cov = HurdleCov(CovParams(results1),
                                       CovParams(results2))]
    IN  [result |-> result,
         results1 |-> IF ResultIsCopy THEN results1 ELSE result,
         results2 |-> results2,
         model |-> [h EXCEPT !.k_extra1 = k_extra1, !.k_extra2 = k_extra2,
                             !.k_extra = Some(k_extra1 + k_extra2 + 1)]]

\* lines 1124-1129: the stage-1 fit
Hurdle_fit_stage1(h, start_params, method, maxiter, ans1, carry) ==
    GenericCensored_fit(h.model1, start_params, method, maxiter, ans1, carry)

\* lines 1131-1136: the stage-2 fit
Hurdle_fit_stage2(h, start_params, method, maxiter, ans2, carry) ==
    GenericTruncated_fit(h.model2, start_params, method, maxiter, ans2, carry)

\* Hurdle.fit, lines 1120-1164: the two stage fits, then the composite
\* result; returns the result and the model with its k_extra counters raised
Hurdle_fit(h, start_params, method, maxiter, ans1, ans2, carry) ==
    Hurdle_assemble(h,
        Hurdle_fit_stage1(h, start_params, method, maxiter, ans1, carry),
        Hurdle_fit_stage2(h, start_params, method, maxiter, ans2, carry))

\* ------------------------------------------- Hurdle.fit, step by step
Hurdle_after_stage1_Counted(h, results1) ==
    [h EXCEPT !.k_extra1 = @ + ResultKExtra(results1)]

\* the Hurdle object when self.model1.fit has returned, lines 1124-1129:
\* nothing is assigned on self before line 1146
Hurdle_after_stage1(h, results1) == h

\* the counters a fit call may change, lines 1146-1148
Hurdle_counters(h) ==
    [k_extra1 |-> h.k_extra1, k_extra2 |-> h.k_extra2, k_extra |-> h.k_extra]

\* ---------------------------------------------- evaluations and self
SelfAfterEvaluation_Overwrite(m) ==
    [m EXCEPT !.model_main.endog = [j \in 1..Len(@) |-> 1]]

\* the model object after loglikeobs, loglike, score_obs, score or hessian
\* has run: lines 111-121, 138-168, 254-266 and 709-760, 860-872 assign no
\* attribute of self; each counterfactual model is a new object (lines
\* 115-116, 143-144) and the arrays changed in place (lines 149, 741-742)
\* are the ones the call itself created
SelfAfterEvaluation(m) == m

\* ------------------------------------------------------------------ state
\* inp: the constructor's arguments; mdl: the model object; ret: what the
\* last call returned ([op |-> "init"] when the caller holds no return value)
VARIABLES inp, mdl, ret
vars == <<inp, mdl, ret>>

Idle == [op |-> "init"]

\* the caller lets go of the value the last call returned
Drop ==
    /\ ret.op # "init"
    /\ ret' = Idle
    /\ UNCHANGED <<inp, mdl>>

\* ------------------------------------------------------------- inputs
CountValues == {0, 1, 2}
Truncations == {-1, 0, 1}

\* designs with a constant and one or two 0/1 regressors
ExogsFor(n, k) ==
    IF k = 2
    THEN {[j \in 1..n |-> <<1, j % 2>>], [j \in 1..n |-> <<1, (j + 1) % 2>>]}
    ELSE {[j \in 1..n |-> <<1, j % 2, (j \div 2) % 2>>]}

Betas(k) == IF k = 2 THEN {<<0, 1>>, <<1, 0>>} ELSE {<<0, 1, 0>>, <<1, 0, 1>>}

\* parameter vectors of the right length for a model
ParamsOf(m) ==
    IF MainKExtra(m) = 0 THEN Betas(m.k_exog)
    ELSE {b \o <<1>> : b \in Betas(m.k_exog)}

\* offset and exposure arguments: none, an offset, or an exposure
Contexts(n) ==
    {<<None, None>>,
     <<Some([j \in 1..n |-> j % 2]), None>>,
     <<None, Some([j \in 1..n |-> 2])>>}

TruncatedKinds ==
    {<<"TruncatedPoisson", 0>>,
     <<"TruncatedNegativeBinomialP", 1>>, <<"TruncatedNegativeBinomialP", 2>>,
     <<"TruncatedGeneralizedPoisson", 1>>, <<"TruncatedGeneralizedPoisson", 2>>}

CensoredKinds ==
    {<<"CensoredPoisson", "Poisson", 0>>,
     <<"CensoredNegativeBinomialP", "NegativeBinomialP", 1>>,
     <<"CensoredNegativeBinomialP", "NegativeBinomialP", 2>>,
     <<"CensoredGeneralizedPoisson", "GeneralizedPoisson", 2>>,
     <<"Censored", "Poisson", 0>>,
     <<"Censored", "NegativeBinomialP", 0>>}

Methods == {"bfgs", "nm"}
Maxiters == {35}
RegMethods == {"l1", "bfgs"}

\* what the external optimizer may answer for a model: fitted parameters, a
\* convergence flag and a covariance (entries tagged by stage, row, column)
CovOf(tag, k) == [a \in 1..k |-> [b \in 1..k |-> 100 * tag + 10 * a + b]]
Answers(m, tag) ==
    {[params |-> q, converged |-> c, cov |-> CovOf(tag, Len(q))] :
        q \in ParamsOf(m), c \in BOOLEAN}

\* ------------------------------------------------- truncated models
InitTrunc ==
    \E n \in 1..MaxObs :
    \E endog \in [1..n -> CountValues], exog \in ExogsFor(n, 2) :
    \E ctx \in Contexts(n), truncation \in Truncations :
    \E kind \in TruncatedKinds :
        /\ inp = [cls |-> kind[1], endog |-> endog, exog |-> exog,
                  offset |-> ctx[1], exposure |-> ctx[2],
                  truncation |-> truncation, p |-> kind[2]]
        /\ mdl = TruncatedInit(kind[1], endog, exog, ctx[1], ctx[2],
                               truncation, kind[2])
        /\ ret = Idle

TruncatedClasses ==
    {"TruncatedPoisson", "TruncatedNegativeBinomialP",
     "TruncatedGeneralizedPoisson"}

TCallable == inp.cls \in TruncatedClasses /\ mdl.ok /\ ret.op = "init"

TLoglikeobs ==
    /\ TCallable
    /\ \E params \in ParamsOf(mdl) :
          ret' = [op |-> "loglikeobs", params |-> params,
                  value |-> GenericTruncated_loglikeobs(mdl, params),
                  cf |-> CounterfactualResponses(mdl)]
    /\ mdl' = SelfAfterEvaluation(mdl)
    /\ UNCHANGED inp

TLoglike ==
    /\ TCallable
    /\ \E params \in ParamsOf(mdl) :
          ret' = [op |-> "loglike", params |-> params,
                  value |-> GenericTruncated_loglike(mdl, params)]
    /\ mdl' = SelfAfterEvaluation(mdl)
    /\ UNCHANGED inp

TScoreObs ==
    /\ TCallable
    /\ \E params \in ParamsOf(mdl) :
          ret' = [op |-> "score_obs", params |-> params,
                  value |-> GenericTruncated_score_obs(mdl, params),
                  cf |-> CounterfactualResponses(mdl)]
    /\ mdl' = SelfAfterEvaluation(mdl)
    /\ UNCHANGED inp

TScore ==
    /\ TCallable
    /\ \E params \in ParamsOf(mdl) :
          ret' = [op |-> "score", params |-> params,
                  value |-> GenericTruncated_score(mdl, params)]
    /\ mdl' = SelfAfterEvaluation(mdl)
    /\ UNCHANGED inp

THessian ==
    /\ TCallable
    /\ \E params \in ParamsOf(mdl) :
          ret' = [op |-> "hessian", params |-> params,
                  value |-> GenericTruncated_hessian(mdl, params)]
    /\ mdl' = SelfAfterEvaluation(mdl)
    /\ UNCHANGED inp

TFit ==
    /\ TCallable
    /\ \E method \in Methods, maxiter \in Maxiters, ans \in Answers(mdl, 1),
          carry \in BOOLEAN :
          ret' = [op |-> "fit", method |-> method, maxiter |-> maxiter,
                  value |-> GenericTruncated_fit(mdl, None, method, maxiter,
                                                 ans, carry)]
    /\ UNCHANGED <<inp, mdl>>

TFitRegularized ==
    /\ TCallable
    /\ \E method \in RegMethods, alpha \in {0, 1}, ans \in Answers(mdl, 1) :
          ret' = [op |-> "fit_regularized", method |-> method,
                  value |-> Generic_fit_regularized(mdl, None, method, alpha,
                                                    ans)]
    /\ UNCHANGED <<inp, mdl>>

TruncWhich == {"mean", "linear", "mean-main", "prob", "prob-main", "var",
               "median"}
CountProbs == {None, Some(<<1, 2>>)}

TPredict ==
    /\ TCallable
    /\ \E params \in ParamsOf(mdl), which \in TruncWhich :
      \E count_prob \in (IF which \in {"prob", "prob-main"} THEN CountProbs
                          ELSE {None}) :
          ret' = [op |-> "predict", params |-> params, which |-> which,
                  count_prob |-> count_prob,
                  value |-> Truncated_predict(mdl, params, None, None, None,
                                              which, count_prob)]
    /\ UNCHANGED <<inp, mdl>>

NextTrunc ==
    \/ TLoglikeobs \/ TLoglike \/ TScoreObs \/ TScore
    \/ THessian \/ TFit \/ TFitRegularized \/ TPredict
    \/ Drop

SpecTrunc == InitTrunc /\ [][NextTrunc]_vars

\* -------------------------------------------------- censored models
CensoredCounts == {0, 2, 5}

InitCens ==
    \E n \in 1..MaxObsC :
    \E endog \in [1..n -> CensoredCounts], exog \in ExogsFor(n, 2) :
    \E kind \in CensoredKinds :
        /\ inp = [cls |-> kind[1], main |-> kind[2], endog |-> endog,
                  exog |-> exog, offset |-> None, exposure |-> None,
                  p |-> kind[3]]
        /\ mdl = CensoredInit(kind[1], kind[2], endog, exog, None, None,
                              kind[3])
        /\ ret = Idle

CensoredClasses ==
    {"CensoredPoisson", "CensoredNegativeBinomialP",
     "CensoredGeneralizedPoisson", "Censored"}

CCallable == inp.cls \in CensoredClasses /\ mdl.ok /\ ret.op = "init"

CLoglikeobs ==
    /\ CCallable
    /\ \E params \in ParamsOf(mdl) :
          ret' = [op |-> "loglikeobs", params |-> params,
                  value |-> GenericCensored_loglikeobs(mdl, params)]
    /\ mdl' = SelfAfterEvaluation(mdl)
    /\ UNCHANGED inp

CLoglike ==
    /\ CCallable
    /\ \E params \in ParamsOf(mdl) :
          ret' = [op |-> "loglike", params |-> params,
                  value |-> GenericCensored_loglike(mdl, params)]
    /\ mdl' = SelfAfterEvaluation(mdl)
    /\ UNCHANGED inp

CScoreObs ==
    /\ CCallable
    /\ \E params \in ParamsOf(mdl) :
          ret' = [op |-> "score_obs", params |-> params,
                  value |-> GenericCensored_score_obs(mdl, params)]
    /\ mdl' = SelfAfterEvaluation(mdl)
    /\ UNCHANGED inp

CScore ==
    /\ CCallable
    /\ \E params \in ParamsOf(mdl) :
          ret' = [op |-> "score", params |-> params,
                  value |-> GenericCensored_score(mdl, params)]
    /\ mdl' = SelfAfterEvaluation(mdl)
    /\ UNCHANGED inp

CHessian ==
    /\ CCallable
    /\ \E params \in ParamsOf(mdl) :
          ret' = [op |-> "hessian", params |-> params,
                  value |-> GenericCensored_hessian(mdl, params)]
    /\ mdl' = SelfAfterEvaluation(mdl)
    /\ UNCHANGED inp

CFit ==
    /\ CCallable
    /\ \E method \in Methods, maxiter \in Maxiters, ans \in Answers(mdl, 1),
          carry \in BOOLEAN :
          ret' = [op |-> "fit", method |-> method, maxiter |-> maxiter,
                  value |-> GenericCensored_fit(mdl, None, method, maxiter,
                                                ans, carry)]
    /\ UNCHANGED <<inp, mdl>>

CFitRegularized ==
    /\ CCallable
    /\ \E method \in RegMethods, alpha \in {0, 1}, ans \in Answers(mdl, 1) :
          ret' = [op |-> "fit_regularized", method |-> method,
                  value |-> Generic_fit_regularized(mdl, None, method, alpha,
                                                    ans)]
    /\ UNCHANGED <<inp, mdl>>

NextCens ==
    \/ CLoglikeobs \/ CLoglike \/ CScoreObs \/ CScore
    \/ CHessian \/ CFit \/ CFitRegularized
    \/ Drop

SpecCens == InitCens /\ [][NextCens]_vars

\* ----------------------------------------------------- hurdle models
DistTags == {"poisson", "negbin"}

\* composite parameter vectors handed to loglike and predict: a zero
\* stage vector followed by a positive stage vector, for any stage layout
StageVectors(k) ==
    Betas(k) \cup {b \o <<1>> : b \in Betas(k)}
ZeroStageVectors(k) ==
    LET b == CHOOSE q \in Betas(k) : q[1] = 0 IN {b, b \o <<1>>}
CompositeParams(k) ==
    {q1 \o q2 : q1 \in ZeroStageVectors(k), q2 \in StageVectors(k)}

\* distribution tags a caller may pass, one of them not supported
GivenDistTags == DistTags \cup {"geometric"}

\* Hurdle(endog, exog, dist=, zerodist=, p=, pzero=) with the two
\* parameterizations drawn from ps
HurdleConstructed(ps) ==
    \E n \in 1..MaxObsH, k \in {2, 3} :
    \E endog \in [1..n -> CountValues], exog \in ExogsFor(n, k) :
    \E dist \in GivenDistTags, zerodist \in GivenDistTags, carry \in BOOLEAN :
    \E p \in ps, pzero \in ps :
        /\ inp = [cls |-> "Hurdle", endog |-> endog, exog |-> exog,
                  dist |-> dist, zerodist |-> zerodist, p |-> p,
                  pzero |-> pzero, results_k_extra |-> carry, fits |-> 0]
        /\ mdl = HurdleInit(endog, exog, None, None, dist, zerodist, p, pzero)
        /\ ret = Idle

\* the default parameterizations p = 2, pzero = 2
InitHurdle == HurdleConstructed({2})

HCallable == inp.cls = "Hurdle" /\ mdl.ok /\ ret.op = "init"

HLoglike ==
    /\ HCallable
    /\ \E params \in CompositeParams(mdl.k_exog) :
          ret' = [op |-> "loglike", params |-> params,
                  value |-> Hurdle_loglike(mdl, params)]
    /\ UNCHANGED <<inp, mdl>>

HFit ==
    /\ HCallable
    /\ inp.fits < MaxFits
    /\ \E method \in Methods, maxiter \in Maxiters,
          ans1 \in Answers(mdl.model1, 1), ans2 \in Answers(mdl.model2, 2) :
          LET out == Hurdle_fit(mdl, None, method, maxiter, ans1, ans2,
                                inp.results_k_extra)
          IN  /\ ret' = [op |-> "fit", method |-> method,
                         maxiter |-> maxiter, ans1 |-> ans1, ans2 |-> ans2,
                         value |-> [result |-> out.result,
                                    results1 |-> out.results1,
                                    results2 |-> out.results2]]
              /\ mdl' = out.model
    /\ inp' = [inp EXCEPT !.fits = @ + 1]

\* counts handed to Hurdle.predict: none, counts from 1, counts from 0
YValues == {None, Some(<<1, 2>>), Some(<<0, 1>>)}

HurdleWhich == {"mean", "MEAN", "mean-main", "linear", "mean-nonzero",
                "prob-zero", "prob-main", "prob-trunc", "prob", "var", "Var"}

HPredict ==
    /\ HCallable
    /\ \E params \in CompositeParams(mdl.k_exog), which \in HurdleWhich :
      \E y_values \in (IF which = "prob" THEN YValues ELSE {None}) :
          ret' = [op |-> "predict", params |-> params, which |-> which,
                  y_values |-> y_values,
                  value |-> Hurdle_predict(mdl, params, None, None, None,
                                           which, y_values)]
    /\ UNCHANGED <<inp, mdl>>

NextHurdle == HLoglike \/ HFit \/ HPredict \/ Drop

SpecHurdle == InitHurdle /\ [][NextHurdle]_vars

\* -------------------------------- hurdle models, any parameterization
\* construction with p and pzero each 1 or 2, then loglike
InitHurdleParam == HurdleConstructed({1, 2})
NextHurdleParam == HLoglike \/ Drop
SpecHurdleParam == InitHurdleParam /\ [][NextHurdleParam]_vars

\* ----------------------------------------- one Hurdle.fit call in steps
\* the call frame is in ret: the stage reached, the stage results so far,
\* whether a stage fit raised, and the counters when the call began
HFitCall ==
    /\ HCallable
    /\ inp.fits < MaxFits
    /\ \E method \in Methods, maxiter \in Maxiters :
          ret' = [op |-> "fit", stage |-> "Unfit", raised |-> FALSE,
                  method |-> method, maxiter |-> maxiter,
                  before |-> Hurdle_counters(mdl),
                  results1 |-> None, results2 |-> None, value |-> None]
    /\ inp' = [inp EXCEPT !.fits = @ + 1]
    /\ UNCHANGED mdl

HFitRunning(stage) ==
    /\ inp.cls = "Hurdle"
    /\ ret.op = "fit"
    /\ ret.stage = stage
    /\ ~ret.raised

\* lines 1124-1129 return
HFitStage1 ==
    /\ HFitRunning("Unfit")
    /\ \E ans1 \in Answers(mdl.model1, 1) :
          LET results1 == Hurdle_fit_stage1(mdl, None, ret.method,
                              ret.maxiter, ans1, inp.results_k_extra)
          IN  /\ ret' = [ret EXCEPT !.stage = "Fit1Complete",
                                    !.results1 = Some(results1)]
              /\ mdl' = Hurdle_after_stage1(mdl, results1)
    /\ UNCHANGED inp

\* lines 1131-1136 return
HFitStage2 ==
    /\ HFitRunning("Fit1Complete")
    /\ \E ans2 \in Answers(mdl.model2, 2) :
          ret' = [ret EXCEPT !.stage = "Fit2Complete",
                    !.results2 = Some(Hurdle_fit_stage2(mdl, None, ret.method,
                                    ret.maxiter, ans2, inp.results_k_extra))]
    /\ UNCHANGED <<inp, mdl>>

\* the stage fit under way raises (the optimizer is outside this module):
\* the exception leaves Hurdle.fit at line 1124 or 1131
HFitStageRaises ==
    /\ \/ HFitRunning("Unfit")
       \/ HFitRunning("Fit1Complete")
    /\ ret' = [ret EXCEPT !.raised = TRUE]
    /\ UNCHANGED <<inp, mdl>>

\* lines 1138-1164
HFitAssemble ==
    /\ HFitRunning("Fit2Complete")
    /\ LET out == Hurdle_assemble(mdl, ret.results1[1], ret.results2[1])
       IN  /\ ret' = [ret EXCEPT !.stage = "Assembled",
                         !.value = Some([result |-> out.result,
                                         results1 |-> out.results1,
                                         results2 |-> out.results2])]
           /\ mdl' = out.model
    /\ UNCHANGED inp

\* the call is over (returned or raised) and the caller moves on
HFitLeave ==
    /\ inp.cls = "Hurdle"
    /\ ret.op = "fit"
    /\ ret.raised \/ ret.stage = "Assembled"
    /\ ret' = Idle
    /\ UNCHANGED <<inp, mdl>>

NextHurdleFit ==
    \/ HFitCall \/ HFitStage1 \/ HFitStage2 \/ HFitStageRaises
    \/ HFitAssemble \/ HFitLeave

SpecHurdleFit == InitHurdle /\ [][NextHurdleFit]_vars

\* ------------------------------------------- the predictors together
\* predict on a truncated model or on a hurdle model
InitPredict == InitTrunc \/ InitHurdle
NextPredict == TPredict \/ HPredict \/ Drop
SpecPredict == InitPredict /\ [][NextPredict]_vars

\* ------------------------------- evaluations of the two adapters
\* loglikeobs, loglike, score_obs, score and hessian, in any order, on a
\* truncated model or on a censored model
InitEval == InitTrunc \/ InitCens
NextEval ==
    \/ TLoglikeobs \/ TLoglike \/ TScoreObs \/ TScore \/ THessian
    \/ CLoglikeobs \/ CLoglike \/ CScoreObs \/ CScore \/ CHessian
    \/ Drop
SpecEval == InitEval /\ [][NextEval]_vars

\* ------------------------------------------------------------- claims
Pairs(endog, exog) == [j \in 1..Len(endog) |-> <<endog[j], exog[j]>>]
AboveTrunc(pr) == pr[1] > inp.truncation

\* C1: a constructed truncated model holds exactly the input rows with
\* endog > truncation, in their input order and each exog row with its own
\* endog value, and its trunc is the truncation given; this stays so after
\* every later call.
C1_RetainedRows ==
    mdl.ok =>
        /\ Len(mdl.endog) = Len(mdl.exog)
        /\ Pairs(mdl.endog, mdl.exog)
             = SelectSeq(Pairs(inp.endog, inp.exog), AboveTrunc)
        /\ mdl.trunc = inp.truncation

C1_Witness ==
    /\ mdl.ok
    /\ ret.op = "score_obs"
    /\ Len(mdl.endog) = 2
    /\ Len(inp.endog) = 3
    /\ inp.endog[1] <= inp.truncation
    /\ mdl.exog[1] # mdl.exog[2]
    /\ mdl.endog[1] # mdl.endog[2]

\* the base distribution of the model (its data context and parameterization)
\* at response y for row j
FRow(m, params, j, y) == BasePmf(BaseSize(m.model_main, params, j), y)

RECURSIVE CdfRow(_, _, _, _)
CdfRow(m, params, j, k) ==
    IF k < 0 THEN RZero
    ELSE RAdd(CdfRow(m, params, j, k - 1), FRow(m, params, j, k))

TruncLogLik(m, params, j) ==
    LogSub(Log(FRow(m, params, j, m.endog[j])),
           Log(RSub(ROne, CdfRow(m, params, j, m.trunc))))

\* C2: with truncation k >= 0, loglikeobs is log f(y|x) - log(1 - sum over
\* i in 0..k of f(i|x)) for every retained row, f the model's base
\* distribution, and loglike is the sum of these values.
C2_TruncatedLoglike ==
    (mdl.ok /\ mdl.trunc >= 0) =>
        /\ ret.op = "loglikeobs" =>
              ret.value = [j \in 1..Len(mdl.endog) |->
                             TruncLogLik(mdl, ret.params, j)]
        /\ ret.op = "loglike" =>
              ret.value = SumLog([j \in 1..Len(mdl.endog) |->
                                    TruncLogLik(mdl, ret.params, j)])

\* what the code evaluates at the counterfactual response i for row j: the
\* probability and the score row of a model of the same class built from
\* the response i and self.exog alone
CfPmf(m, params, j, i) ==
    Exp(BaseLoglikeobs(CounterfactualModel(m, i), params)[j])
CfScore(m, params, j, i) ==
    BaseScoreObs(CounterfactualModel(m, i), params)[j]

RECURSIVE CfPmfSum(_, _, _, _)
CfPmfSum(m, params, j, k) ==
    IF k < 0 THEN RZero
    ELSE RAdd(CfPmfSum(m, params, j, k - 1), CfPmf(m, params, j, k))

RECURSIVE CfWeightedScore(_, _, _, _)
CfWeightedScore(m, params, j, k) ==
    IF k < 0 THEN VZero(Len(params))
    ELSE VAdd(CfWeightedScore(m, params, j, k - 1),
              VScale(CfScore(m, params, j, k), CfPmf(m, params, j, k)))

ScoreCorrection(m, params, j) ==
    VScale(CfWeightedScore(m, params, j, m.trunc),
           RDiv(ROne, RSub(ROne, CfPmfSum(m, params, j, m.trunc))))

\* C3 as stated: score_obs is score_main MINUS (sum over i of pmf_i times
\* the score at response i) / (1 - sum over i of pmf_i), row by row.
C3_ScoreMinus ==
    (mdl.ok /\ ret.op = "score_obs") =>
        ret.value = [j \in 1..Len(mdl.endog) |->
            VAdd(BaseScoreObs(mdl.model_main, ret.params)[j],
                 VScale(ScoreCorrection(mdl, ret.params, j), RInt(-1)))]

\* C3 amended: score_obs is score_main PLUS (sum over i in 0..trunc of pmf_i
\* times the score at response i) / (1 - sum over i of pmf_i), row by row,
\* pmf_i and the score at i being those the code evaluates at response i.
C3_ScorePlus ==
    (mdl.ok /\ ret.op = "score_obs") =>
        ret.value = [j \in 1..Len(mdl.endog) |->
            VAdd(BaseScoreObs(mdl.model_main, ret.params)[j],
                 ScoreCorrection(mdl, ret.params, j))]

C3_Witness ==
    /\ mdl.ok
    /\ ret.op = "score_obs"
    /\ mdl.trunc = 1
    /\ Len(mdl.endog) >= 2
    /\ \E j \in 1..Len(mdl.endog) :
          ScoreCorrection(mdl, ret.params, j) # VZero(Len(ret.params))

\* C4: with truncation -1, loglikeobs and score_obs are those of the wrapped
\* base model, and no transient model is built at a counterfactual response.
C4_NoTruncation ==
    (mdl.ok /\ mdl.trunc = -1) =>
        /\ ret.op = "loglikeobs" =>
              /\ ret.value = BaseLoglikeobs(mdl.model_main, ret.params)
              /\ ret.cf = <<>>
        /\ ret.op = "score_obs" =>
              /\ ret.value = BaseScoreObs(mdl.model_main, ret.params)
              /\ ret.cf = <<>>

C4_Witness ==
    /\ mdl.ok
    /\ mdl.trunc = -1
    /\ ret.op = "score_obs"
    /\ Len(mdl.endog) = 3
    /\ ~IsNone(mdl.offset)
    /\ \E j \in 1..3 : mdl.endog[j] = 0

\* the 0-based row numbers where keep holds, ascending
RowsWhere(n, keep(_)) ==
    SelectSeq([j \in 1..n |-> j - 1], LAMBDA r : keep(r))
IsZeroRow(r) == inp.endog[r + 1] = 0
IsNonzeroRow(r) == inp.endog[r + 1] # 0

\* the order the claims give: all zero rows, then all nonzero rows
CensoredOrder ==
    RowsWhere(Len(inp.endog), IsZeroRow)
    \o RowsWhere(Len(inp.endog), IsNonzeroRow)

\* f(0|x) of the model's base distribution on the exog row r of the sample
PmfZero(params, r) ==
    LET x == inp.exog[r + 1]
        main == mdl.model_main
        alpha == IF KExtraOf(main.cls) = 0 THEN 0 ELSE params[Len(params)]
    IN  BasePmf(SizeOf(ExpLin(Dot(x, SliceTo(params, Len(x)))), alpha, main.p),
                0)

\* the base score at response zero on the exog row r of the sample
ScoreAtZero(params, r) ==
    LET x == inp.exog[r + 1]
        main == mdl.model_main
        alpha == IF KExtraOf(main.cls) = 0 THEN 0 ELSE params[Len(params)]
        s == SizeOf(ExpLin(Dot(x, SliceTo(params, Len(x)))), alpha, main.p)
    IN  [c \in 1..Len(params) |->
            IF c <= Len(x) THEN RInt((0 - s) * x[c]) ELSE RInt(0 - 2 * s)]

CensoredLogLik(params, r) ==
    IF inp.endog[r + 1] = 0 THEN Log(PmfZero(params, r))
    ELSE Log(RSub(ROne, PmfZero(params, r)))

CensoredScoreRow(params, r) ==
    IF inp.endog[r + 1] = 0 THEN ScoreAtZero(params, r)
    ELSE VScale(ScoreAtZero(params, r),
                RDiv(RNeg(PmfZero(params, r)),
                     RSub(ROne, PmfZero(params, r))))

\* C5: a censored model's loglikeobs holds log f(0|x) for each row with
\* endog = 0 and log(1 - f(0|x)) for each row with endog # 0, the zero rows
\* first and the nonzero rows after them, each group in ascending row
\* order; for endog = [0,2,0,5] that order is rows 0, 2, 1, 3; the output
\* has one entry per observation.
C5_CensoredLoglikeobs ==
    ret.op = "loglikeobs" =>
        /\ Len(ret.value) = Len(inp.endog)
        /\ ret.value = [j \in 1..Len(CensoredOrder) |->
                          CensoredLogLik(ret.params, CensoredOrder[j])]
        /\ inp.endog = <<0, 2, 0, 5>> => CensoredOrder = <<0, 2, 1, 3>>

C5_Witness ==
    /\ ret.op = "loglikeobs"
    /\ inp.endog = <<0, 2, 0, 5>>
    /\ ret.value[2] = CensoredLogLik(ret.params, 2)
    /\ ret.value[3] = CensoredLogLik(ret.params, 1)
    /\ ret.value[2] # ret.value[3]
    /\ ret.value[4] = CensoredLogLik(ret.params, 3)

\* C6: a censored model's score_obs holds the base score at response zero
\* for each zero row and -score_at_zero * f(0|x) / (1 - f(0|x)) for each
\* nonzero row, in the order of loglikeobs: row j of score_obs and entry j
\* of loglikeobs belong to the same observation.
C6_CensoredScoreObs ==
    ret.op = "score_obs" =>
        /\ Len(ret.value) = Len(inp.endog)
        /\ \A j \in 1..Len(ret.value) :
              /\ ret.value[j] = CensoredScoreRow(ret.params, CensoredOrder[j])
              /\ GenericCensored_loglikeobs(mdl, ret.params)[j]
                   = CensoredLogLik(ret.params, CensoredOrder[j])

C6_Witness ==
    /\ ret.op = "score_obs"
    /\ inp.endog = <<2, 0, 5, 0>>
    /\ mdl.model_main.cls = "NegativeBinomialP"
    /\ ret.value[1] = ScoreAtZero(ret.params, 1)
    /\ ret.value[3] # ScoreAtZero(ret.params, 0)
    /\ ret.value[3] # VScale(ScoreAtZero(ret.params, 0), RInt(-1))
    /\ ret.value[1] # ret.value[3]

ToSet(v) == {v[j] : j \in 1..Len(v)}

\* C7: zero_idx and nonzero_idx are disjoint, cover every row of the sample
\* given to the constructor once, hold the rows with endog = 0 and with
\* endog # 0, and are the same after any calls of loglikeobs, score_obs,
\* fit, fit_regularized and hessian.
C7_CensoringSplit ==
    /\ ToSet(mdl.zero_idx) \cap ToSet(mdl.nonzero_idx) = {}
    /\ ToSet(mdl.zero_idx) \cup ToSet(mdl.nonzero_idx)
         = {j - 1 : j \in 1..Len(inp.endog)}
    /\ Len(mdl.zero_idx) + Len(mdl.nonzero_idx) = Len(inp.endog)
    /\ ToSet(mdl.zero_idx) = {j - 1 : j \in {i \in 1..Len(inp.endog) :
                                               inp.endog[i] = 0}}
    /\ ToSet(mdl.nonzero_idx) = {j - 1 : j \in {i \in 1..Len(inp.endog) :
                                                  inp.endog[i] # 0}}
    /\ mdl.endog = inp.endog

C7_Witness ==
    /\ ret.op = "fit_regularized"
    /\ Len(inp.endog) = 4
    /\ Len(mdl.zero_idx) = 1
    /\ mdl.nonzero_idx = <<0, 1, 3>>

\* the numbers of extra parameters the two stages of a hurdle model take
TrueKExtra1 == IF inp.zerodist = "negbin" THEN 1 ELSE 0
TrueKExtra2 == IF inp.dist = "negbin" THEN 1 ELSE 0

\* the split a call reports
SplitOf(r) ==
    IF r.op = "loglike"
    THEN [k |-> r.value.k, params_zero |-> r.value.params_zero,
          params_main |-> r.value.params_main]
    ELSE [k |-> r.value.split.k_zeros,
          params_zero |-> r.value.split.params_zero,
          params_main |-> r.value.split.params_main]

\* C8: loglike and predict split the composite vector at the same index
\* k = (len(params) - k_extra1 - k_extra2)/2 + k_extra1 (the quotient cut to
\* an integer), params[:k] going to the zero stage and params[k:] to the
\* positive stage; with k_extra1 = 0, k_extra2 = 1 and 7 elements k = 3; and
\* when k_extra1, k_extra2 are the stages' true numbers of extra parameters
\* and the vector is [params1, params2] over equally many coefficients, k is
\* the length of params1.
C8_SplitIndex ==
    (mdl.ok /\ ret.op \in {"loglike", "predict"}) =>
        LET n == Len(ret.params)
            d == n - mdl.k_extra1 - mdl.k_extra2
            sp == SplitOf(ret)
            h == sp.k - mdl.k_extra1
        IN  /\ d >= 0 => (2 * h <= d /\ d < 2 * h + 2)
            /\ d < 0 => (2 * h >= d /\ d > 2 * h - 2)
            /\ (0 <= sp.k /\ sp.k <= n) =>
                  /\ Len(sp.params_zero) = sp.k
                  /\ sp.params_zero \o sp.params_main = ret.params
            /\ sp.k = Hurdle_loglike(mdl, ret.params).k
            /\ sp.k = Hurdle_predict(mdl, ret.params, None, None, None,
                                     "linear", None).split.k_zeros
            /\ (mdl.k_extra1 = 0 /\ mdl.k_extra2 = 1 /\ n = 7) => sp.k = 3
            /\ ( /\ mdl.k_extra1 = TrueKExtra1
                 /\ mdl.k_extra2 = TrueKExtra2
                 /\ n = 2 * mdl.k_exog + TrueKExtra1 + TrueKExtra2 )
               => sp.k = mdl.k_exog + TrueKExtra1

C8_Witness ==
    /\ mdl.ok
    /\ ret.op = "predict"
    /\ ret.value.ok
    /\ Len(ret.params) = 7
    /\ mdl.k_extra1 = 0
    /\ mdl.k_extra2 = 1
    /\ inp.dist = "negbin" /\ inp.zerodist = "poisson"
    /\ ret.value.split.k_zeros = 3
    /\ Len(ret.value.split.params_main) = 4

\* C9: in every state of a hurdle model (before a fit, after one, after
\* several) k_extra1 and k_extra2 are the numbers of extra parameters of
\* stage 1 and stage 2, so that a composite vector [params1, params2] is
\* split at len(params1).
C9_KExtraTrue ==
    mdl.ok =>
        /\ mdl.k_extra1 = TrueKExtra1
        /\ mdl.k_extra2 = TrueKExtra2
        /\ ( /\ ret.op \in {"loglike", "predict"}
             /\ Len(ret.params) = 2 * mdl.k_exog + TrueKExtra1 + TrueKExtra2 )
           => SplitOf(ret).k = mdl.k_exog + TrueKExtra1

\* C10: the params of Hurdle.fit's result are the stage-1 fitted vector
\* followed by the stage-2 fitted vector, its df_model is the sum of the two
\* stages' df_model (each stage model's df_model is that of the design its
\* constructor was given), and the two stage results keep their own params.
C10_FitAssembly ==
    (mdl.ok /\ ret.op = "fit") =>
        LET res == ret.value.result
            n1 == Len(ret.ans1.params)
            df1 == ExogRank(inp.exog) - 1
            df2 == ExogRank(inp.exog) - 1
        IN  /\ Len(res.params) = n1 + Len(ret.ans2.params)
            /\ SubSeq(res.params, 1, n1) = ret.ans1.params
            /\ SubSeq(res.params, n1 + 1, Len(res.params)) = ret.ans2.params
            /\ res.df_model = df1 + df2
            /\ ret.value.results1.df_model = df1
            /\ ret.value.results2.df_model = df2
            /\ ret.value.results1.params = ret.ans1.params
            /\ ret.value.results2.params = ret.ans2.params

C10_Witness ==
    /\ mdl.ok
    /\ ret.op = "fit"
    /\ inp.dist = "negbin" /\ inp.zerodist = "poisson"
    /\ Len(ret.value.result.params) = 5
    /\ ret.ans1.params # SubSeq(ret.ans2.params, 1, 2)
    /\ ret.value.result.df_model = 2
    /\ ret.value.results2.df_model = 1
    /\ Len(mdl.model2.endog) = 1
    /\ inp.fits = 2

\* C11: whatever the two stages' convergence outcomes, Hurdle.fit returns
\* an assembled composite result whose converged entry is the ordered pair
\* [stage-1 flag, stage-2 flag], never one merged flag.
C11_ConvergedPair ==
    (mdl.ok /\ ret.op = "fit") =>
        LET res == ret.value.result
        IN  /\ Len(res.converged) = 2
            /\ res.converged[1] = ret.ans1.converged
            /\ res.converged[2] = ret.ans2.converged
            /\ res.model = "Hurdle"
            /\ Len(res.params) = Len(ret.ans1.params) + Len(ret.ans2.params)

C11_Witness ==
    /\ mdl.ok
    /\ ret.op = "fit"
    /\ ret.ans1.converged
    /\ ~ret.ans2.converged
    /\ ret.value.result.converged = <<TRUE, FALSE>>

\* C12: the covariance of Hurdle.fit's result is block-diagonal with the
\* boundary at len(params1): the stage-1 covariance in the leading block,
\* the stage-2 covariance in the trailing block, zero wherever a stage-1
\* parameter meets a stage-2 parameter; and that boundary is the index at
\* which loglike and predict split the fitted vector.
C12_BlockCovariance ==
    (mdl.ok /\ ret.op = "fit") =>
        LET res == ret.value.result
            n1 == Len(ret.ans1.params)
            n == Len(res.params)
        IN  /\ Len(res.cov) = n
            /\ \A r \in 1..n : \A c \in 1..n :
                  res.cov[r][c] =
                     IF r <= n1 /\ c <= n1 THEN ret.ans1.cov[r][c]
                     ELSE IF r > n1 /\ c > n1
                          THEN ret.ans2.cov[r - n1][c - n1]
                          ELSE 0
            /\ Hurdle_loglike(mdl, res.params).k = n1
            /\ Hurdle_predict(mdl, res.params, None, None, None,
                              "linear", None).split.k_zeros = n1

\* the two stages of a hurdle prediction, from the sample, the distribution
\* tags and the two parameter vectors of the call's split
StageCls(tag) == IF tag = "negbin" THEN "NegativeBinomialP" ELSE "Poisson"
StageAlpha(tag, q) == IF tag = "negbin" THEN q[Len(q)] ELSE 0
StageP(tag, p) == IF tag = "negbin" THEN p ELSE 0
StageMu(q, j) == ExpLin(Dot(inp.exog[j], SliceTo(q, Len(inp.exog[j]))))

\* P(Y > 0) of the zero stage on row j
ProbMainRow(j) ==
    LET q == ret.value.split.params_zero
    IN  RSub(ROne, BasePmf(SizeOf(StageMu(q, j), StageAlpha(inp.zerodist, q),
                                  StageP(inp.zerodist, inp.pzero)), 0))

\* the size parameter of the positive stage's base distribution on row j
PositiveSize(j) ==
    LET q == ret.value.split.params_main
    IN  SizeOf(StageMu(q, j), StageAlpha(inp.dist, q), StageP(inp.dist, inp.p))

\* the zero-truncated positive-stage pmf on row j at count y >= 1
ZeroTruncatedPmf(j, y) ==
    RDiv(BasePmf(PositiveSize(j), y),
         RSub(ROne, BasePmf(PositiveSize(j), 0)))

PredictCounts ==
    IF IsNone(ret.y_values) THEN [c \in 1..(SeqMax(inp.endog) + 1) |-> c - 1]
    ELSE ret.y_values[1]

\* C13: Hurdle.predict(which='prob') puts prob_zero in the cell of count 0
\* and prob_main times the zero-truncated stage-2 pmf in the cell of every
\* count >= 1, for the default counts 0..max(endog) and for any y_values.
C13_ProbZeroCell ==
    (mdl.ok /\ ret.op = "predict" /\ Lower(ret.which) = "prob"
       /\ ret.value.ok) =>
        \A j \in 1..Len(inp.endog) :
            /\ Len(ret.value.value[j]) = Len(PredictCounts)
            /\ \A c \in 1..Len(PredictCounts) :
                  ret.value.value[j][c] =
                     IF PredictCounts[c] = 0
                     THEN RSub(ROne, ProbMainRow(j))
                     ELSE RMul(ProbMainRow(j),
                               ZeroTruncatedPmf(j, PredictCounts[c]))

\* C14: prob_ntrunc is P(Y > 0) of the positive stage's (model2's) base
\* distribution at params_main, whatever dist and zerodist are;
\* which='mean' is prob_main * exp(linear predictor) / prob_ntrunc and
\* which='mean-nonzero' is exp(linear predictor) / prob_ntrunc.
C14_ProbNtrunc ==
    (mdl.ok /\ ret.op = "predict" /\ ret.value.ok) =>
        LET w == Lower(ret.which)
            q == ret.value.split.params_main
            mu(j) == RInt(StageMu(q, j))
            prob_ntrunc(j) == RSub(ROne, BasePmf(PositiveSize(j), 0))
        IN  \A j \in 1..Len(inp.endog) :
              /\ w = "mean" =>
                    ret.value.value[j]
                      = RDiv(RMul(ProbMainRow(j), mu(j)), prob_ntrunc(j))
              /\ w = "mean-nonzero" =>
                    ret.value.value[j] = RDiv(mu(j), prob_ntrunc(j))
              /\ w = "prob-trunc" =>
                    ret.value.value[j] = RSub(ROne, prob_ntrunc(j))

\* the kinds each predictor has a branch for
HandledKinds ==
    CASE inp.cls = "Hurdle" ->
            {"mean", "mean-main", "linear", "mean-nonzero", "prob-zero",
             "prob-main", "prob-trunc", "prob"}
      [] inp.cls = "TruncatedGeneralizedPoisson" ->
            {"mean", "linear", "mean-main", "prob"}
      [] OTHER ->
            {"mean", "linear", "mean-main", "prob", "prob-main", "var"}

\* the kind a predictor dispatches on: Hurdle lower-cases it first
DispatchedKind == IF inp.cls = "Hurdle" THEN Lower(ret.which) ELSE ret.which

MessageNames(v, x) == \E t \in 1..Len(v.msg) : v.msg[t] = x

\* C15: for TruncatedPoisson, TruncatedNegativeBinomialP,
\* TruncatedGeneralizedPoisson and Hurdle, at any truncation >= -1, predict
\* with a kind the predictor has no branch for ('var' on Hurdle and on
\* TruncatedGeneralizedPoisson among them) ends in an error whose message
\* holds the offending kind; no value is returned and no other kind's value
\* is computed in its place.
C15_UnhandledKind ==
    (mdl.ok /\ ret.op = "predict" /\ DispatchedKind \notin HandledKinds) =>
        /\ ~ret.value.ok
        /\ "value" \notin DOMAIN ret.value
        /\ ret.value.err = (IF inp.cls = "Hurdle" THEN "ValueError"
                            ELSE "TypeError")
        /\ MessageNames(ret.value, DispatchedKind)

C15_Witness ==
    /\ mdl.ok
    /\ ret.op = "predict"
    /\ inp.cls = "TruncatedGeneralizedPoisson"
    /\ inp.truncation = 1
    /\ ret.which = "var"
    /\ ~ret.value.ok
    /\ ret.value.msg[2] = "var"

\* C16: a Hurdle constructed with a dist or zerodist tag other than "poisson"
\* or "negbin" fails at construction with an error whose message names the
\* invalid value; neither model1 nor model2 exists afterwards and no default
\* distribution is put in the tag's place.
C16_InvalidTagNamed ==
    (inp.cls = "Hurdle" /\ {inp.dist, inp.zerodist} \ DistTags # {}) =>
        /\ ~mdl.ok
        /\ "model1" \notin DOMAIN mdl
        /\ "model2" \notin DOMAIN mdl
        /\ \A tag \in {inp.dist, inp.zerodist} \ DistTags :
              MessageNames(mdl, tag)

\* the model as the constructor builds it from the arguments in inp
ModelOfInput ==
    IF inp.cls \in TruncatedClasses
    THEN TruncatedInit(inp.cls, inp.endog, inp.exog, inp.offset,
                       inp.exposure, inp.truncation, inp.p)
    ELSE CensoredInit(inp.cls, inp.main, inp.endog, inp.exog, inp.offset,
                      inp.exposure, inp.p)

\* what the evaluation op returns for params on the model m
Evaluation(op, m, params) ==
    IF m.cls \in TruncatedClasses
    THEN CASE op = "loglikeobs" -> GenericTruncated_loglikeobs(m, params)
           [] op = "loglike" -> GenericTruncated_loglike(m, params)
           [] op = "score_obs" -> GenericTruncated_score_obs(m, params)
           [] op = "score" -> GenericTruncated_score(m, params)
           [] op = "hessian" -> GenericTruncated_hessian(m, params)
    ELSE CASE op = "loglikeobs" -> GenericCensored_loglikeobs(m, params)
           [] op = "loglike" -> GenericCensored_loglike(m, params)
           [] op = "score_obs" -> GenericCensored_score_obs(m, params)
           [] op = "score" -> GenericCensored_score(m, params)
           [] op = "hessian" -> GenericCensored_hessian(m, params)

EvaluationOps == {"loglikeobs", "loglike", "score_obs", "score", "hessian"}

\* C17: after any sequence of loglikeobs, loglike, score_obs, score and
\* hessian evaluations on a truncated or censored model, the model (endog,
\* exog, trunc, zero_idx, nonzero_idx, and the wrapped base model's response
\* and exog) is still the model the constructor built, and the value an
\* evaluation returns for params is the value it returns on that newly
\* constructed model.
C17_EvaluationsPure ==
    /\ mdl = ModelOfInput
    /\ (ret.op \in EvaluationOps =>
            ret.value = Evaluation(ret.op, ModelOfInput, ret.params))

C17_Witness ==
    /\ ret.op = "score_obs"
    /\ inp.cls = "TruncatedNegativeBinomialP"
    /\ mdl.ok
    /\ mdl.trunc = 1
    /\ Len(mdl.model_main.endog) = 2
    /\ mdl.model_main.endog # <<1, 1>>
    /\ mdl.model_main.endog = ModelOfInput.model_main.endog

\* the stage a state of a fit call is in; "Idle" outside a call
StageOf(r) == IF r.op = "fit" THEN r.stage ELSE "Idle"

\* the steps the stages may take
StageSteps ==
    {<<"Idle", "Unfit">>, <<"Unfit", "Fit1Complete">>,
     <<"Fit1Complete", "Fit2Complete">>, <<"Fit2Complete", "Assembled">>,
     <<"Unfit", "Idle">>, <<"Fit1Complete", "Idle">>, <<"Assembled", "Idle">>}

C18_StageInvariant ==
    ret.op = "fit" =>
        /\ ret.stage \in {"Unfit", "Fit1Complete", "Fit2Complete",
                          "Assembled"}
        /\ IsNone(ret.results1) <=> ret.stage = "Unfit"
        /\ IsNone(ret.results2) <=> ret.stage \in {"Unfit", "Fit1Complete"}
        /\ IsNone(ret.value) <=> ret.stage # "Assembled"
        /\ ret.raised => /\ ret.stage \in {"Unfit", "Fit1Complete"}
                         /\ IsNone(ret.value)
                         /\ Hurdle_counters(mdl) = ret.before
        /\ ret.stage # "Assembled" => Hurdle_counters(mdl) = ret.before

C18_StageStep ==
    /\ StageOf(ret') # StageOf(ret) => <<StageOf(ret), StageOf(ret')>> \in StageSteps
    /\ (StageOf(ret') = "Idle" /\ StageOf(ret) \in {"Unfit", "Fit1Complete"})
            => ret.raised
    /\ (ret.op = "fit" /\ ret.raised) => StageOf(ret') = "Idle" /\ mdl' = mdl

\* C18: within one Hurdle.fit call the stages go Unfit -> Fit1Complete ->
\* Fit2Complete -> Assembled and in no other order: the stage-2 result exists
\* only once the stage-1 result does, the composite result exists only at
\* Assembled, after both stage results, and a call in which a stage fit
\* raised ends at that stage with no composite result and with the model's
\* k_extra1, k_extra2 and k_extra as they were when the call began.
C18_FitStages == []C18_StageInvariant /\ [][C18_StageStep]_vars

C18_Witness ==
    /\ ret.op = "fit"
    /\ ret.raised
    /\ ret.stage = "Fit1Complete"
    /\ ResultKExtra(ret.results1[1]) = 1
    /\ inp.fits = 2
    /\ ret.before.k_extra1 = 1

\* Differentiation of the log-likelihood as the code computes it.  A
\* differentiable quantity is kept with its gradient in params:
\* [val |-> u, grad |-> du].  The base distribution's contract is that its
\* score_obs row is the gradient of its loglikeobs row, so the probability
\* exp(loglikeobs) has the gradient exp(loglikeobs) * score_obs.
DBaseProb(model, params, j) ==
    LET pr == Exp(BaseLoglikeobs(model, params)[j])
    IN  [val |-> pr, grad |-> VScale(BaseScoreRow(model, params, j), pr)]

\* d(u + v), d(1 - u), d(log u)
DAdd(u, v) == [val |-> RAdd(u.val, v.val), grad |-> VAdd(u.grad, v.grad)]
DOneMinus(u) ==
    [val |-> RSub(ROne, u.val), grad |-> VScale(u.grad, RInt(-1))]
DLogGrad(u) == VScale(u.grad, RDiv(ROne, u.val))

\* the sum over the responses 0..trunc, as loglikeobs accumulates it
DTruncRegion(m, params, j) ==
    LET RECURSIVE acc(_)
        acc(n) ==
            IF n <= 0 THEN [val |-> RZero, grad |-> VZero(Len(params))]
            ELSE DAdd(acc(n - 1),
                      DBaseProb(CounterfactualModel(m, n - 1), params, j))
    IN  acc(TruncRange(m))

\* gradient of row j of GenericTruncated.loglikeobs:
\* llf_main - log(1 - pmf)
DTruncatedRow(m, params, j) ==
    VAdd(DLogGrad(DBaseProb(m.model_main, params, j)),
         VScale(DLogGrad(DOneMinus(DTruncRegion(m, params, j))), RInt(-1)))

\* gradient of GenericCensored.loglikeobs at row j of the sample: llf_main
\* where the response is zero, log(1 - exp(llf_main)) elsewhere
DCensoredRow(m, params, j) ==
    IF m.endog[j] = 0
    THEN DLogGrad(DBaseProb(m.model_main, params, j))
    ELSE DLogGrad(DOneMinus(DBaseProb(m.model_main, params, j)))

\* gradient of loglike: the rows' gradients summed
GradLoglike(m, params) ==
    SumRows([j \in 1..Len(m.endog) |->
                IF m.cls \in TruncatedClasses
                THEN DTruncatedRow(m, params, j)
                ELSE DCensoredRow(m, params, j)], Len(params))

LoglikeFinite(m, params) ==
    LET ll == Evaluation("loglikeobs", m, params)
    IN  \A j \in 1..Len(ll) : ll[j].fin

\* C19: on a truncated and on a censored model, over Poisson, negative
\* binomial and generalized Poisson base distributions, score(params) is the
\* gradient in params of loglike(params) wherever the log-likelihood is
\* finite.
C19_ScoreIsGradient ==
    (mdl.ok /\ ret.op = "score" /\ LoglikeFinite(mdl, ret.params)) =>
        ret.value = GradLoglike(mdl, ret.params)

C19_Witness ==
    /\ mdl.ok
    /\ ret.op = "score"
    /\ inp.cls = "TruncatedNegativeBinomialP"
    /\ mdl.trunc = 1
    /\ Len(mdl.endog) = 2
    /\ LoglikeFinite(mdl, ret.params)
    /\ ret.value = GradLoglike(mdl, ret.params)
    /\ ret.value # SumRows(BaseScoreObs(mdl.model_main, ret.params),
                           Len(ret.params))

\* what a base model evaluates its distribution with, the response aside
ContextOf(model) ==
    [cls |-> model.cls, exog |-> model.exog, offset |-> model.offset,
     exposure |-> model.exposure, p |-> model.p]

\* C20: in a truncated model's loglikeobs and score_obs, the base model
\* evaluated at each counterfactual response i in 0..trunc has the same exog
\* rows, the same offset and exposure and the same parameterization p as
\* model_main; the response is all that differs.
C20_SameContext ==
    (mdl.ok /\ inp.cls \in TruncatedClasses
        /\ ret.op \in {"loglikeobs", "score_obs"}) =>
        \A n \in 1..Len(ret.cf) :
            LET model == CounterfactualModel(mdl, ret.cf[n])
            IN  /\ model.ok
                /\ ContextOf(model) = ContextOf(mdl.model_main)
                /\ model.endog = [j \in 1..Len(mdl.endog) |-> ret.cf[n]]

\* rows the truncation filter drops from the sample the constructor is given
RowsDropped ==
    \E j \in 1..Len(inp.endog) : ~KeepMask(inp.endog, inp.truncation)[j]

\* a per-observation vector cut down to the rows the filter keeps
FilteredRows(v) == BoolIndex(v, KeepMask(inp.endog, inp.truncation))

\* the optional vector o holds exactly the kept rows of the vector given
HoldsKeptRows(o, given) ==
    /\ ~IsNone(o)
    /\ Len(o[1]) = Len(FilteredRows(inp.endog))
    /\ o[1] = FilteredRows(given)

\* the exposure as the models hold it: logged
LoggedExposure == [j \in 1..Len(inp.endog) |-> LogExposure(inp.exposure[1][j])]

\* C21: a truncated model constructed with a per-observation offset or
\* exposure, whose truncation filter drops at least one row, holds (itself
\* and in model_main) an offset / exposure with as many rows as the filtered
\* endog and exog, entry j being that of the observation in filtered row j.
C21_ContextAligned ==
    (inp.cls \in TruncatedClasses /\ RowsDropped
        /\ (~IsNone(inp.offset) \/ ~IsNone(inp.exposure))) =>
        /\ mdl.ok
        /\ Len(mdl.exog) = Len(mdl.endog)
        /\ ~IsNone(inp.offset) =>
              /\ HoldsKeptRows(mdl.offset, inp.offset[1])
              /\ HoldsKeptRows(mdl.model_main.offset, inp.offset[1])
        /\ ~IsNone(inp.exposure) =>
              /\ HoldsKeptRows(mdl.exposure, LoggedExposure)
              /\ HoldsKeptRows(mdl.model_main.exposure, LoggedExposure)

\* C22: Hurdle construction gives each stage its own parameterization: with
\* zerodist = "negbin" model1.model_main is a NegativeBinomialP with
\* parameterization pzero, with dist = "negbin" model2.model_main is a
\* NegativeBinomialP with parameterization p, and model2 is zero-truncated.
C22_StageParameterization ==
    (inp.cls = "Hurdle" /\ mdl.ok) =>
        /\ inp.zerodist = "negbin" =>
              /\ mdl.model1.model_main.cls = "NegativeBinomialP"
              /\ mdl.model1.model_main.p = inp.pzero
        /\ inp.dist = "negbin" =>
              /\ mdl.model2.model_main.cls = "NegativeBinomialP"
              /\ mdl.model2.model_main.p = inp.p
        /\ mdl.model2.trunc = 0

\* the optimizer call recorded in a results object was made with the method
\* and the iteration cap of the fit call in ret
OptimizerAsRequested(res) ==
    /\ res.optimizer.method = ret.method
    /\ res.optimizer.maxiter = ret.maxiter

\* C23: the method a fit call is given is the method the optimizer is
\* invoked with, together with the call's maxiter: in GenericTruncated.fit,
\* in GenericCensored.fit and in both stage fits of Hurdle.fit.
C23_MethodHandedOn ==
    (mdl.ok /\ ret.op = "fit") =>
        IF inp.cls = "Hurdle"
        THEN /\ OptimizerAsRequested(ret.value.results1)
             /\ OptimizerAsRequested(ret.value.results2)
        ELSE OptimizerAsRequested(ret.value)

\* the untruncated base pmf of every row of the model at the given counts
MainPmfAt(m, params, counts) ==
    BasePredictProb(m.model_main.cls, m.model_main.p, params,
                    GetPredictArrays(m, None, None, None), m.k_exog, counts)

\* C24: on TruncatedPoisson and TruncatedNegativeBinomialP,
\* predict(which = "prob-main") gives the untruncated base pmf at the counts
\* which = "prob" uses: count_prob when it is given, 0..max(endog) otherwise.
C24_ProbMainCounts ==
    (mdl.ok /\ ret.op = "predict" /\ ret.which = "prob-main"
        /\ inp.cls \in {"TruncatedPoisson", "TruncatedNegativeBinomialP"}
        /\ ret.value.ok) =>
        LET want == MainPmfAt(mdl, ret.params,
                              ProbCounts(mdl, ret.count_prob))
        IN  ret.value.value = [j \in 1..Len(want) |-> <<want[j]>>]

\* C25: in a Hurdle model on a non-negative integer response the stages
\* partition the sample: model2 (zero-truncated) holds exactly the rows
\* model1.nonzero_idx indexes, in the same order; model1 holds every row;
\* and len(model1.zero_idx) plus the number of model2 rows is the number of
\* observations.
C25_StagePartition ==
    (inp.cls = "Hurdle" /\ mdl.ok) =>
        /\ mdl.model2.endog = TakeIdx(mdl.endog, mdl.model1.nonzero_idx)
        /\ mdl.model2.exog = TakeIdx(mdl.exog, mdl.model1.nonzero_idx)
        /\ mdl.model2.model_main.endog = mdl.model2.endog
        /\ mdl.model1.endog = mdl.endog
        /\ mdl.model1.exog = mdl.exog
        /\ Len(mdl.model1.zero_idx) + Len(mdl.model2.endog) = Len(mdl.endog)
        /\ Len(mdl.endog) = Len(inp.endog)

C25_Witness ==
    /\ inp.cls = "Hurdle"
    /\ mdl.ok
    /\ inp.endog = <<0, 1>>
    /\ mdl.model1.zero_idx = <<0>>
    /\ mdl.model1.nonzero_idx = <<1>>
    /\ mdl.model2.endog = <<1>>
    /\ mdl.model2.exog = <<inp.exog[2]>>
    /\ ret.op = "loglike"

====
